---- MODULE Spec2Model ----
(***************************************************************************)
(* Player-slot and session registry of cmx-battleship-online-api.          *)
(*                                                                         *)
(* The model follows src/src/user_session/daos.py statement by statement:  *)
(* every db.execute is one atomic step against the shared store, and the   *)
(* request-handling workers interleave between the statements of one       *)
(* function (Django runs each statement in its own transaction; settings.py*)
(* sets no ATOMIC_REQUESTS).  Input validation follows                     *)
(* src/src/user_session/models.py.                                         *)
(*                                                                         *)
(* The database schema (tables user_session and player_slot, their column  *)
(* defaults, constraints and triggers) is not part of the source files;    *)
(* daos.py only reads player_slot.in_use and never writes it.  The schema  *)
(* is modelled from the specification (sections 3 and 6): inserting a      *)
(* session row marks its slot in use, deleting a row releases it,          *)
(* player_id is unique among the session rows, and the timestamps default  *)
(* to the insertion time.  These definitions are InsertRow*, DeleteRows*.  *)
(***************************************************************************)
EXTENDS Integers, Sequences, FiniteSets, TLC

(* ------------------------------ bounds -------------------------------- *)
\* number of rows of table player_slot (the pool size N)
PoolSize == 2
\* number of session ids uuid4 hands out in one run
MaxSessions == 3
\* the clock runs up to MaxTime minutes
MaxTime == 11

(* ------------------------- program constants -------------------------- *)
\* INTERVAL '10 MINUTES' of retrieve_session and get_online_player_count
ACTIVITY_WINDOW == 10
USER_SESSION_PLAYER_NAME_MIN_LEN == 4
USER_SESSION_PLAYER_NAME_MAX_LEN == 32

Letters ==
    {"a","b","c","d","e","f","g","h","i","j","k","l","m",
     "n","o","p","q","r","s","t","u","v","w","x","y","z",
     "A","B","C","D","E","F","G","H","I","J","K","L","M",
     "N","O","P","Q","R","S","T","U","V","W","X","Y","Z"}
Digits == {"0","1","2","3","4","5","6","7","8","9"}
\* the character class of USER_SESSION_PLAYER_NAME_REGEXP = '^[A-Za-z0-9-_.]*$'
\* (after the range 0-9 the '-' is a literal, as are '_' and '.')
PlayerNameChars == Letters \cup Digits \cup {"-", "_", "."}
Whitespace == {" ", "\t", "\n"}
\* USER_SESSION_NUM_SHIPS_OPTIONS = ['1', '2', '3', '4', '5']
USER_SESSION_NUM_SHIPS_OPTIONS == {<<"1">>, <<"2">>, <<"3">>, <<"4">>, <<"5">>}

(* ------------------------------ domains ------------------------------- *)
\* the concurrent request-handling workers
Workers == {"w1", "w2"}
\* the player_id values of table player_slot (four-digit strings in the
\* database; the code treats them as opaque keys)
PlayerIds == 1..PoolSize
\* The uuid4 values start_session generates are 1, 2, ... in the order of
\* generation; this is a session id no start_session ever generated.
UnknownSessionId == MaxSessions + 1

Rep(c, n) == [i \in 1..n |-> c]

\* strings are sequences of one-character strings
ValidName == <<"A", "z", "0", "-", "_", ".">>
NameSamples ==
    { ValidName,
      <<>>,                                       \* empty
      Rep(" ", 5),                                \* blank
      Rep("a", 2), Rep("a", 3),                   \* too short
      Rep("a", 33),                               \* too long
      <<"a", "b", "!", "d">>,                     \* character outside the class
      <<"a", " ", "c", "d", "e">>,
      Rep("!", 2), Rep(" ", 33) \o <<"a">> }
ShipSamples ==
    { <<"3">>, <<>>, <<" ">>, <<"0">>, <<"6">>, <<"9">>, <<"1", "0">> }

\* the dict handed to UserSession(data): a key may be missing
LoginData ==
    { [player_name |-> n, num_ships |-> <<"3">>] : n \in NameSamples }
    \cup { [player_name |-> ValidName, num_ships |-> s] : s \in ShipSamples }
    \cup { [player_name |-> Rep("a", 3), num_ships |-> <<"6">>],
           [player_name |-> <<>>, num_ships |-> <<>>],
           [player_name |-> ValidName],
           [num_ships |-> <<"3">>],
           [num_ships |-> <<"7">>],
           [x \in {} |-> <<>>] }

(* ---------------------------- validation ------------------------------ *)
\* django_utils_morriswa.str_tools.isBlank
isBlank(s) == \A i \in 1..Len(s) : s[i] \in Whitespace

\* re.fullmatch(USER_SESSION_PLAYER_NAME_REGEXP, s)
fullmatch(s) == \A i \in 1..Len(s) : s[i] \in PlayerNameChars

NoError == [raised |-> "none"]
ValidationException(f, e) == [raised |-> "ValidationException", field |-> f, error |-> e]

\* mutant of validate: the maximum length is not checked
validateNoMaxLen(player_name, num_ships) ==
    IF Len(player_name) < USER_SESSION_PLAYER_NAME_MIN_LEN
      THEN ValidationException("player_name", "min len")
    ELSE IF ~fullmatch(player_name)
      THEN ValidationException("player_name", "A-Z a-z 0-9 - _ . only")
    ELSE IF num_ships \notin USER_SESSION_NUM_SHIPS_OPTIONS
      THEN ValidationException("num_ships", "options")
    ELSE NoError

\* UserSession.validate
validate(player_name, num_ships) ==
    IF Len(player_name) < USER_SESSION_PLAYER_NAME_MIN_LEN
      THEN ValidationException("player_name", "min len")
    ELSE IF Len(player_name) > USER_SESSION_PLAYER_NAME_MAX_LEN
      THEN ValidationException("player_name", "max len")
    ELSE IF ~fullmatch(player_name)
      THEN ValidationException("player_name", "A-Z a-z 0-9 - _ . only")
    ELSE IF num_ships \notin USER_SESSION_NUM_SHIPS_OPTIONS
      THEN ValidationException("num_ships", "options")
    ELSE NoError

\* UserSession.__init__: the exception it raises, or NoError
UserSessionInit(data) ==
    IF "player_name" \notin DOMAIN data \/ isBlank(data["player_name"])
      THEN ValidationException("player_name", "required")
    ELSE IF "num_ships" \notin DOMAIN data \/ isBlank(data["num_ships"])
      THEN ValidationException("num_ships", "required")
    ELSE validate(data["player_name"], data["num_ships"])

(* ------------------------------- state -------------------------------- *)
VARIABLES
    user_session,   \* table user_session: a set of rows
    player_slot,    \* table player_slot: player_id -> in_use ("Y" / "N")
    now,            \* the database clock NOW(), in minutes
    issued,         \* how many session ids uuid4 has generated
    pc,             \* per worker: the statement it executes next
    local,          \* per worker: the local variables of its running call
    ret             \* what the call that returned in the last step gave its caller

vars == <<user_session, player_slot, now, issued, pc, local, ret>>

\* ret holds the caller's view (result: "dict", "None", "player", a count, or
\* "raise" with the exception) and, as observations the caller does not get,
\* the exception the function caught and logged (caught, stage) and the
\* number of rows its delete removed (rowcount).

NoLocal == [op |-> "none"]
NoRet == [op |-> "none"]

Row(sid, pid, name, ships, started, used) ==
    [session_id |-> sid, player_id |-> pid, player_name |-> name,
     num_ships |-> ships, session_started |-> started, session_used |-> used]

\* mutant of InWindow: the upper end of the window is excluded
InWindowExclusive(used, t) == t - ACTIVITY_WINDOW < used /\ used <= t

\* session_used between NOW() - INTERVAL '10 MINUTES' and NOW()
InWindow(used, t) == t - ACTIVITY_WINDOW <= used /\ used <= t

(* ------------------------- the store (schema) ------------------------- *)
\* mutant of InsertRowAllowed: player_id is not unique in user_session
InsertRowAllowedKeyOnly(rows, row) ==
    \A r \in rows : r.session_id # row.session_id

\* insert into user_session: refused (IntegrityError) when the primary key
\* or the unique player_id is taken
InsertRowAllowed(rows, row) ==
    \A r \in rows : r.session_id # row.session_id /\ r.player_id # row.player_id
\* the columns the insert statement does not name take their defaults:
\* session_started = session_used = the time of the insert
InsertRowDefaults(values, t) ==
    Row(values.session_id, values.player_id, values.player_name, values.num_ships, t, t)
\* the table after the insert
InsertRowSessions(rows, row) == rows \cup {row}
\* the slot table after the insert: the row's slot is marked in use
InsertRowSlots(slots, row) == [slots EXCEPT ![row.player_id] = "Y"]
\* the table after deleting the rows `gone`
DeleteRowsSessions(rows, gone) == rows \ gone
\* mutant of DeleteRowsSlots: a delete releases no slot
DeleteRowsSlotsKept(slots, gone) == slots
\* the slot table after deleting the rows `gone`: their slots are released
DeleteRowsSlots(slots, gone) ==
    [p \in DOMAIN slots |->
        IF \E r \in gone : r.player_id = p THEN "N" ELSE slots[p]]

(* ----------------------------- the clock ------------------------------ *)
\* The clock is observed at minute 0, at the end of the window that starts
\* at 0, and every minute from there on.
Tick ==
    /\ now < MaxTime
    /\ now' = IF now < ACTIVITY_WINDOW THEN ACTIVITY_WINDOW ELSE now + 1
    /\ ret' = NoRet
    /\ UNCHANGED <<user_session, player_slot, issued, pc, local>>

Init ==
    /\ user_session = {}
    /\ player_slot = [p \in PlayerIds |-> "N"]
    /\ now = 0
    /\ issued = 0
    /\ pc = [w \in Workers |-> "idle"]
    /\ local = [w \in Workers |-> NoLocal]
    /\ ret = NoRet

(* ------------------------ get_available_player_id --------------------- *)
\* select player_id from player_slot where in_use = 'N'
AvailableSlots(slots) == {p \in DOMAIN slots : slots[p] = "N"}

\* The outcomes of get_available_player_id.  "limit 1" without an order
\* returns any one of the selected rows.  With no row selected fetchone()
\* is None and result.get('player_id') on line 54 raises AttributeError
\* before the test of line 55 is reached, so line 56 (APIException) is not.
get_available_player_id(slots) ==
    IF AvailableSlots(slots) = {}
      THEN {[raised |-> "AttributeError"]}
      ELSE {[raised |-> "none", player_id |-> p] : p \in AvailableSlots(slots)}

(* ------------------------------ requests ------------------------------ *)
Finish(w, r) ==
    /\ pc' = [pc EXCEPT ![w] = "idle"]
    /\ local' = [local EXCEPT ![w] = NoLocal]
    /\ ret' = r

\* The caller builds the request object from the request body; the
\* constructor raises ValidationException and start_session is not called.
LoginRejected(w, data) ==
    /\ pc[w] = "idle"
    /\ UserSessionInit(data) # NoError
    /\ Finish(w, [op |-> "UserSession", result |-> "raise",
                  exception |-> UserSessionInit(data)])
    /\ UNCHANGED <<user_session, player_slot, now, issued>>

\* start_session, lines 75-77, when get_available_player_id raises: the
\* exception is caught on line 90, logged, and the function returns None.
StartSessionNoSlot(w, data) ==
    /\ pc[w] = "idle"
    /\ UserSessionInit(data) = NoError
    /\ \E out \in get_available_player_id(player_slot) :
         /\ out.raised # "none"
         /\ Finish(w, [op |-> "start_session", result |-> "None",
                       caught |-> out.raised,
                       stage |-> "get_available_player_id"])
    /\ UNCHANGED <<user_session, player_slot, now, issued>>

\* start_session, lines 75-77: uuid4 and get_available_player_id returned.
StartSessionSelect(w, data) ==
    /\ pc[w] = "idle"
    /\ UserSessionInit(data) = NoError
    /\ issued < MaxSessions
    /\ \E out \in get_available_player_id(player_slot) :
         /\ out.raised = "none"
         /\ local' = [local EXCEPT ![w] =
                [op |-> "start_session",
                 gen_session_id |-> issued + 1,
                 gen_player_id |-> out.player_id,
                 player_name |-> data["player_name"],
                 num_ships |-> data["num_ships"]]]
    /\ issued' = issued + 1
    /\ pc' = [pc EXCEPT ![w] = "insert"]
    /\ ret' = NoRet
    /\ UNCHANGED <<user_session, player_slot, now>>

\* mutant of NewRow: player_name and num_ships change places in the values
NewRowSwapped(l, t) ==
    InsertRowDefaults([session_id |-> l.gen_session_id, player_id |-> l.gen_player_id,
                       player_name |-> l.num_ships, num_ships |-> l.player_name], t)

\* the row start_session inserts: values (session_id, player_id, player_name,
\* num_ships), the timestamp columns being left to the store
NewRow(l, t) ==
    InsertRowDefaults([session_id |-> l.gen_session_id, player_id |-> l.gen_player_id,
                       player_name |-> l.player_name, num_ships |-> l.num_ships], t)

\* start_session, lines 79-91: the insert, then the return of the dict; an
\* IntegrityError of the insert is caught on line 90 and None is returned.
StartSessionInsert(w) ==
    /\ pc[w] = "insert"
    /\ IF InsertRowAllowed(user_session, NewRow(local[w], now))
         THEN /\ user_session' = InsertRowSessions(user_session, NewRow(local[w], now))
              /\ player_slot' = InsertRowSlots(player_slot, NewRow(local[w], now))
              /\ Finish(w, [op |-> "start_session", result |-> "dict",
                            session_id |-> local[w].gen_session_id,
                            player_id |-> local[w].gen_player_id])
         ELSE /\ UNCHANGED <<user_session, player_slot>>
              /\ Finish(w, [op |-> "start_session", result |-> "None",
                            caught |-> "IntegrityError", stage |-> "insert"])
    /\ UNCHANGED <<now, issued>>

\* mutant of StartSessionInsertFails: the slot was marked in use before the
\* insert and the except branch does not release it
StartSessionInsertFailsLeak(w) ==
    /\ pc[w] = "insert"
    /\ player_slot' = [player_slot EXCEPT ![local[w].gen_player_id] = "Y"]
    /\ Finish(w, [op |-> "start_session", result |-> "None",
                  caught |-> "DatabaseError", stage |-> "insert"])
    /\ UNCHANGED <<user_session, now, issued>>

\* start_session, lines 79-91, when the store fails to execute the insert
\* (connection lost, statement error): caught on line 90, None returned.
StartSessionInsertFails(w) ==
    /\ pc[w] = "insert"
    /\ Finish(w, [op |-> "start_session", result |-> "None",
                  caught |-> "DatabaseError", stage |-> "insert"])
    /\ UNCHANGED <<user_session, player_slot, now, issued>>

\* the session ids a client may present: every id generated so far and one
\* that never was
KnownSessionIds == {UnknownSessionId} \cup 1..issued

\* mutant of SelectSession: the select does not test session_used
SelectSessionAnyAge(rows, sid, t) == {r \in rows : r.session_id = sid}

\* retrieve_session, lines 17-24: the rows the select returns
SelectSession(rows, sid, t) ==
    {r \in rows : r.session_id = sid /\ InWindow(r.session_used, t)}

\* AuthenticatedPlayer(player_data): the view of the row the caller gets
AuthenticatedPlayer(r) ==
    [player_id |-> r.player_id, player_name |-> r.player_name,
     num_ships |-> r.num_ships, session_started |-> r.session_started]

\* retrieve_session, lines 15-27, when the select finds no row: None
RetrieveSessionNone(w, sid) ==
    /\ pc[w] = "idle"
    /\ SelectSession(user_session, sid, now) = {}
    /\ Finish(w, [op |-> "retrieve_session", session_id |-> sid, result |-> "None"])
    /\ UNCHANGED <<user_session, player_slot, now, issued>>

\* retrieve_session, lines 15-29, when the select finds the row
RetrieveSessionSelect(w, sid) ==
    /\ pc[w] = "idle"
    /\ \E r \in SelectSession(user_session, sid, now) :
         local' = [local EXCEPT ![w] =
             [op |-> "retrieve_session", session_id |-> sid,
              player |-> AuthenticatedPlayer(r)]]
    /\ pc' = [pc EXCEPT ![w] = "update"]
    /\ ret' = NoRet
    /\ UNCHANGED <<user_session, player_slot, now, issued>>

\* mutant of TouchSession: the update has no where clause
TouchSessionAll(rows, sid, t) == {[r EXCEPT !.session_used = t] : r \in rows}

\* update user_session set session_used = current_timestamp where session_id = %s
TouchSession(rows, sid, t) ==
    {IF r.session_id = sid THEN [r EXCEPT !.session_used = t] ELSE r : r \in rows}

\* retrieve_session, lines 28-33: the update, then the return of the player
RetrieveSessionUpdate(w) ==
    /\ pc[w] = "update"
    /\ user_session' = TouchSession(user_session, local[w].session_id, now)
    /\ Finish(w, [op |-> "retrieve_session", session_id |-> local[w].session_id,
                  result |-> "player", player |-> local[w].player])
    /\ UNCHANGED <<player_slot, now, issued>>

\* mutant of EndSessionRows: the delete matches no row
EndSessionRowsNone(rows, sid) == {r \in rows : FALSE}
\* mutant of EndSessionRows: the delete has lost its where clause
EndSessionRowsAll(rows, sid) == rows

\* delete from user_session where session_id = %s: the rows it deletes
EndSessionRows(rows, sid) == {r \in rows : r.session_id = sid}

\* end_session, lines 104-110
EndSession(w, sid) ==
    /\ pc[w] = "idle"
    /\ user_session' = DeleteRowsSessions(user_session, EndSessionRows(user_session, sid))
    /\ player_slot' = DeleteRowsSlots(player_slot, EndSessionRows(user_session, sid))
    /\ Finish(w, [op |-> "end_session", session_id |-> sid, result |-> "None",
                  caught |-> "none",
                  rowcount |-> Cardinality(EndSessionRows(user_session, sid))])
    /\ UNCHANGED <<now, issued>>

\* mutant of EndSessionFails: the exception of the delete is not caught
EndSessionFailsRaises(w, sid) ==
    /\ pc[w] = "idle"
    /\ Finish(w, [op |-> "end_session", session_id |-> sid, result |-> "raise",
                  caught |-> "none"])
    /\ UNCHANGED <<user_session, player_slot, now, issued>>

\* end_session when the store fails to execute the delete: the exception is
\* caught on line 111, logged, and the function returns None all the same.
EndSessionFails(w, sid) ==
    /\ pc[w] = "idle"
    /\ Finish(w, [op |-> "end_session", session_id |-> sid, result |-> "None",
                  caught |-> "DatabaseError"])
    /\ UNCHANGED <<user_session, player_slot, now, issued>>

\* mutant of ReapRows: "not" is missing, the delete takes the rows in the window
ReapRowsInWindow(rows, t) == {r \in rows : InWindow(r.session_used, t)}

\* mutant of ReapRows: the delete tests session_started, not session_used
ReapRowsByStarted(rows, t) == {r \in rows : ~InWindow(r.session_started, t)}

\* delete from user_session where session_used not between
\* NOW() - INTERVAL '10 MINUTES' AND NOW(): the rows it deletes
ReapRows(rows, t) == {r \in rows : ~InWindow(r.session_used, t)}

\* mutant of CountInUse: the free slots are counted
CountFree(slots) == Cardinality({p \in DOMAIN slots : slots[p] = "N"})

\* select count(player_id) from player_slot where in_use = 'Y'
CountInUse(slots) == Cardinality({p \in DOMAIN slots : slots[p] = "Y"})

\* get_online_player_count, lines 37-46: both statements are one execute
GetOnlinePlayerCount(w) ==
    /\ pc[w] = "idle"
    /\ user_session' = DeleteRowsSessions(user_session, ReapRows(user_session, now))
    /\ player_slot' = DeleteRowsSlots(player_slot, ReapRows(user_session, now))
    /\ Finish(w, [op |-> "get_online_player_count",
                  result |-> CountInUse(player_slot'),
                  rowcount |-> Cardinality(ReapRows(user_session, now))])
    /\ UNCHANGED <<now, issued>>

Next ==
    \/ Tick
    \/ \E w \in Workers, data \in LoginData : LoginRejected(w, data)
    \/ \E w \in Workers, data \in LoginData : StartSessionNoSlot(w, data)
    \/ \E w \in Workers, data \in LoginData : StartSessionSelect(w, data)
    \/ \E w \in Workers : StartSessionInsert(w)
    \/ \E w \in Workers : StartSessionInsertFails(w)
    \/ \E w \in Workers, sid \in KnownSessionIds : RetrieveSessionNone(w, sid)
    \/ \E w \in Workers, sid \in KnownSessionIds : RetrieveSessionSelect(w, sid)
    \/ \E w \in Workers : RetrieveSessionUpdate(w)
    \/ \E w \in Workers, sid \in KnownSessionIds : EndSession(w, sid)
    \/ \E w \in Workers, sid \in KnownSessionIds : EndSessionFails(w, sid)
    \/ \E w \in Workers : GetOnlinePlayerCount(w)


(* ------------------------------- claims ------------------------------- *)
\* a session row is live at the current time: now - session_used <= 10 minutes
Live(r) == now - r.session_used <= 10 /\ r.session_used <= now
Expired(r) == now - r.session_used > 10
SessionRow(sid) == {r \in user_session : r.session_id = sid}

\* C1: in every reachable state any two distinct session rows that are both
\* live hold different player_id values.
C1_LivePlayerIdsDistinct ==
    \A r1 \in user_session : \A r2 \in user_session :
        (r1 # r2 /\ Live(r1) /\ Live(r2)) => r1.player_id # r2.player_id
\* two sessions are live at once, on different slots
C1_Witness ==
    \E r1 \in user_session : \E r2 \in user_session :
        r1.session_id # r2.session_id /\ Live(r1) /\ Live(r2)
        /\ r1.player_id # r2.player_id

\* C2 (as claimed): two start_session calls that run at the same time never
\* hold the same player_id from get_available_player_id: the select of a free
\* slot and its marking are atomic with respect to other allocations.
C2_SelectionIsAtomic ==
    \A w1 \in Workers : \A w2 \in Workers :
        (w1 # w2 /\ pc[w1] = "insert" /\ pc[w2] = "insert")
            => local[w1].gen_player_id # local[w2].gen_player_id

\* C3: the select of retrieve_session at time t finds a session last touched
\* at T when T <= t <= T + 10 (the player is then returned), and the call
\* returns None when t > T + 10.
C3_LivenessWindow ==
    [][\A w \in Workers : \A sid \in KnownSessionIds : \A r \in SessionRow(sid) :
          /\ (RetrieveSessionNone(w, sid) \/ RetrieveSessionSelect(w, sid))
               => /\ (r.session_used <= now /\ now <= r.session_used + 10)
                       => /\ pc'[w] = "update"
                          /\ local'[w].session_id = sid
                          /\ local'[w].player.player_id = r.player_id
                  /\ (now > r.session_used + 10)
                       => /\ pc'[w] = "idle"
                          /\ ret' = [op |-> "retrieve_session", session_id |-> sid,
                                     result |-> "None"]
          /\ (pc[w] = "update" /\ local[w].session_id = sid /\ RetrieveSessionUpdate(w))
               => /\ ret'.op = "retrieve_session" /\ ret'.result = "player"
                  /\ ret'.session_id = sid
      ]_vars
\* a retrieve_session found its session exactly 10 minutes after the last touch
C3_Witness ==
    \E w \in Workers : \E r \in user_session :
        /\ pc[w] = "update"
        /\ local[w].session_id = r.session_id
        /\ now = r.session_used + 10

\* C4 (as claimed): a start_session that finds no free slot fails with the
\* pool-exhausted APIException of get_available_player_id.
C4_PoolExhaustedReported ==
    (/\ ret.op = "start_session"
     /\ ret.result = "None" => ret.stage = "get_available_player_id"
     /\ ret.result # "dict"
     /\ AvailableSlots(player_slot) = {}
     /\ Cardinality(user_session) = PoolSize)
      => (ret.result = "raise" /\ ret.exception = "APIException")

C6_EndSessionIdempotent ==
    [][\A w \in Workers : \A sid \in KnownSessionIds :
          (EndSession(w, sid) /\ SessionRow(sid) = {})
            => /\ user_session' = user_session
               /\ player_slot' = player_slot
               /\ ret'.result = "None" /\ ret'.caught = "none"
      ]_vars
\* end_session(s) found no row; s once held a player_id (a worker still holds
\* the player it read from that row) that another session holds now
C6_Witness ==
    /\ ret.op = "end_session" /\ ret.caught = "none" /\ ret.rowcount = 0
    /\ \E w \in Workers : \E r \in user_session :
         /\ pc[w] = "update"
         /\ local[w].session_id = ret.session_id
         /\ r.session_id # ret.session_id
         /\ r.player_id = local[w].player.player_id
         /\ player_slot[r.player_id] = "Y"

\* C7: the reap of get_online_player_count deletes every expired row and
\* releases its player_id, which get_available_player_id can then return;
\* and no identifier it can return is held by a remaining session.
C7_ReapReleases ==
    [][\A w \in Workers :
          GetOnlinePlayerCount(w)
            => /\ \A r \in user_session :
                    Expired(r)
                      => /\ \A q \in user_session' : q.session_id # r.session_id
                         /\ player_slot'[r.player_id] = "N"
                         /\ [raised |-> "none", player_id |-> r.player_id]
                                \in get_available_player_id(player_slot')
               /\ \A out \in get_available_player_id(player_slot') :
                    out.raised = "none"
                      => \A q \in user_session' : q.player_id # out.player_id
      ]_vars
\* a reap deleted an expired row while another session stayed
C7_Witness ==
    /\ ret.op = "get_online_player_count" /\ ret.rowcount >= 1
    /\ user_session # {}
    /\ AvailableSlots(player_slot) # {}

\* C8: when get_online_player_count returns, no row outside the window is
\* left and the count returned is the number of sessions within the window.
C8_CountIsLiveSessions ==
    ret.op = "get_online_player_count"
      => /\ \A r \in user_session : Live(r)
         /\ ret.result = Cardinality({r \in user_session : Live(r)})
\* a count that reaped one session and counted another
C8_Witness ==
    /\ ret.op = "get_online_player_count"
    /\ ret.rowcount = 1 /\ ret.result = 1

\* letters, digits, '-', '_' and '.'
AllowedNameChars == Letters \cup Digits \cup {"-", "_", "."}
\* the fields of a create request the claim calls invalid
NameInvalid(data) ==
    \/ "player_name" \notin DOMAIN data
    \/ \A i \in 1..Len(data["player_name"]) : data["player_name"][i] \in Whitespace
    \/ Len(data["player_name"]) < 4
    \/ Len(data["player_name"]) > 32
    \/ \E i \in 1..Len(data["player_name"]) :
          data["player_name"][i] \notin AllowedNameChars
ShipsInvalid(data) ==
    \/ "num_ships" \notin DOMAIN data
    \/ data["num_ships"] \notin {<<"1">>, <<"2">>, <<"3">>, <<"4">>, <<"5">>}
InvalidFields(data) ==
    {f \in {"player_name"} : NameInvalid(data)} \cup {f \in {"num_ships"} : ShipsInvalid(data)}

\* the request data a start_session in flight or a session row carries
DataOf(x) == [player_name |-> x.player_name, num_ships |-> x.num_ships]

\* the constructor refuses every invalid sample request, naming an invalid field
InvalidRefused ==
    \A data \in LoginData :
        InvalidFields(data) # {}
          => /\ UserSessionInit(data).raised = "ValidationException"
             /\ UserSessionInit(data).field \in InvalidFields(data)

\* C9: a create request with an invalid player_name or num_ships is refused
\* with a validation error naming an invalid field, before any identifier is
\* selected or any row inserted: the refusal changes neither table, and no
\* invalid request reaches get_available_player_id or the insert.
C9_ValidationBeforeAllocation ==
    [][/\ InvalidRefused
       /\ ret'.op = "UserSession"
            => /\ ret'.result = "raise"
               /\ ret'.exception.raised = "ValidationException"
               /\ UNCHANGED <<user_session, player_slot, issued, pc, local>>
       /\ \A w \in Workers :
            pc'[w] = "insert" => InvalidFields(DataOf(local'[w])) = {}
       /\ \A r \in user_session' : InvalidFields(DataOf(r)) = {}
      ]_vars
\* a request was refused for its num_ships while sessions exist
C9_Witness ==
    /\ ret.op = "UserSession" /\ ret.result = "raise"
    /\ ret.exception.field = "num_ships" /\ ret.exception.error = "options"
    /\ user_session # {}

\* C10 (as claimed): a start_session never returns None: it returns the dict
\* or raises an error to its caller.
C10_NeverReturnsNone ==
    ret.op = "start_session" => ret.result \in {"dict", "raise"}

C12_ExpiredLooksNonexistent ==
    [][\A w \in Workers : \A sid \in KnownSessionIds :
          (/\ pc[w] = "idle"
           /\ \A r \in SessionRow(sid) : Expired(r)
           /\ RetrieveSessionNone(w, sid) \/ RetrieveSessionSelect(w, sid))
            => /\ ret' = [op |-> "retrieve_session", session_id |-> sid,
                          result |-> "None"]
               /\ pc'[w] = "idle"
               /\ user_session' = user_session
               /\ player_slot' = player_slot
      ]_vars
\* a retrieve_session returned None for a session whose expired row is still
\* in the table
C12_Witness ==
    /\ ret.op = "retrieve_session" /\ ret.result = "None"
    /\ \E r \in user_session : r.session_id = ret.session_id /\ Expired(r)

\* C13: the row a successful start_session inserts carries the request's
\* player_name and num_ships, the returned session_id and player_id, and
\* session_started = session_used = the time of the insert; no later step
\* changes these fields but session_used; and the player retrieve_session
\* reads within the window carries the row's player_id, player_name and
\* num_ships.
C13_RetrieveReturnsWhatWasStarted ==
    [][/\ \A w \in Workers :
            (pc[w] = "insert" /\ pc'[w] = "idle" /\ ret'.op = "start_session"
                /\ ret'.result = "dict")
              => /\ ret'.session_id = local[w].gen_session_id
                 /\ ret'.player_id = local[w].gen_player_id
                 /\ Row(ret'.session_id, ret'.player_id, local[w].player_name,
                        local[w].num_ships, now, now) \in user_session'
       /\ \A r \in user_session : \A q \in user_session' :
            q.session_id = r.session_id
              => /\ q.player_id = r.player_id
                 /\ q.player_name = r.player_name
                 /\ q.num_ships = r.num_ships
       /\ \A w \in Workers : \A r \in user_session :
            (pc[w] = "idle" /\ Live(r) /\ RetrieveSessionSelect(w, r.session_id))
              => /\ local'[w].player.player_id = r.player_id
                 /\ local'[w].player.player_name = r.player_name
                 /\ local'[w].player.num_ships = r.num_ships
       /\ \A w \in Workers :
            (pc[w] = "update" /\ ret'.op = "retrieve_session" /\ pc'[w] = "idle")
              => /\ ret'.result = "player"
                 /\ ret'.session_id = local[w].session_id
                 /\ ret'.player = local[w].player
      ]_vars
\* a retrieve_session returned the player of a session started at an earlier
\* time, with the request's name and ships and the row's player_id
C13_Witness ==
    /\ ret.op = "retrieve_session" /\ ret.result = "player"
    /\ ret.player.player_name = ValidName /\ ret.player.num_ships = <<"3">>
    /\ \E r \in user_session :
         /\ r.session_id = ret.session_id
         /\ r.player_id = ret.player.player_id
         /\ r.session_started < now /\ r.session_used = now

\* C14: end_session returns normally (None) whatever the session id and also
\* when the store fails to execute the delete.
C14_EndSessionNeverRaises ==
    ret.op = "end_session"
      => /\ ret.result = "None"
         /\ ret.session_id \in KnownSessionIds
\* an end_session returned normally although its delete failed and the row
\* of the session is still there
C14_Witness ==
    /\ ret.op = "end_session" /\ ret.result = "None"
    /\ ret.caught = "DatabaseError"
    /\ \E r \in user_session : r.session_id = ret.session_id

\* C15: in every reachable state a player_id is marked in use in the slot
\* pool if and only if exactly one session row holds that player_id.
C15_SlotInUseIffOneRow ==
    \A p \in PlayerIds :
        player_slot[p] = "Y"
          <=> Cardinality({r \in user_session : r.player_id = p}) = 1
\* one slot is in use with its row and the other is free after its session
\* was created and deleted
C15_Witness ==
    /\ \E p \in PlayerIds : player_slot[p] = "Y"
    /\ \E p \in PlayerIds : player_slot[p] = "N"
    /\ Cardinality(user_session) = 1
    /\ issued >= 2
    /\ ret.op = "end_session" /\ ret.caught = "none"
    /\ ret.rowcount = 1

\* C16: a retrieve_session that returns a player has set session_used of the
\* session's row to the current time: the row exists when the call returns
\* and its session_used is now, also when an end_session or a reap runs
\* between the call's select and its update.
C16_TouchIsAtomicWithCheck ==
    (ret.op = "retrieve_session" /\ ret.result = "player")
      => \E r \in user_session :
            r.session_id = ret.session_id /\ r.session_used = now

\* C17: the reap of get_online_player_count deletes no row that is within
\* the window at the time of the sweep; a row whose touch was executed before
\* the sweep is such a row and stays.
C17_ReapKeepsTouchedSessions ==
    [][\A w \in Workers :
          GetOnlinePlayerCount(w)
            => \A r \in user_session : Live(r) => r \in user_session'
      ]_vars
\* a sweep kept a session that was started more than a window ago and
\* touched at the time of the sweep, and deleted another one
C17_Witness ==
    /\ ret.op = "get_online_player_count"
    /\ ret.rowcount >= 1
    /\ \E r \in user_session :
         r.session_started + ACTIVITY_WINDOW < now /\ r.session_used = now

\* a session id that was issued and is over: its row is expired, or it has
\* no row and no insert of it is pending
Gone(sid) ==
    /\ \A w \in Workers : ~(pc[w] = "insert" /\ local[w].gen_session_id = sid)
    /\ \A r \in SessionRow(sid) : Expired(r)

\* C18: once a session is expired, reaped or ended, no step makes
\* retrieve_session return that session id, and no step puts its row back
\* within the window.
C18_LifecycleIsOneWay ==
    [][\A sid \in 1..issued :
          Gone(sid)
            => /\ ~(ret'.op = "retrieve_session" /\ ret'.result = "player"
                     /\ ret'.session_id = sid)
               /\ \A q \in user_session' :
                    q.session_id = sid => ~InWindow(q.session_used, now')
      ]_vars

\* C19: no step changes session_id, player_id, player_name, num_ships or
\* session_started of a row that stays in the table, and a retrieve_session
\* step changes nothing but session_used of the row it addresses: the other
\* rows and the slot pool are as before and no row appears or disappears.
C19_RetrieveChangesOnlySessionUsed ==
    [][/\ \A r \in user_session : \A q \in user_session' :
            q.session_id = r.session_id
              => [q EXCEPT !.session_used = r.session_used] = r
       /\ \A w \in Workers : \A sid \in KnownSessionIds :
            (RetrieveSessionNone(w, sid) \/ RetrieveSessionSelect(w, sid))
              => user_session' = user_session /\ player_slot' = player_slot
       /\ \A w \in Workers :
            (pc[w] = "update" /\ pc'[w] = "idle")
              => /\ player_slot' = player_slot
                 /\ {r.session_id : r \in user_session'}
                      = {r.session_id : r \in user_session}
                 /\ \A r \in user_session :
                      r.session_id # local[w].session_id => r \in user_session'
                 /\ \A q \in user_session' :
                      q.session_id = local[w].session_id => q.session_used = now
      ]_vars
\* a retrieve_session touched its row while another row kept its older
\* session_used
C19_Witness ==
    /\ ret.op = "retrieve_session" /\ ret.result = "player"
    /\ \E r \in user_session : \E q \in user_session :
         /\ r.session_id = ret.session_id
         /\ r.session_started < now /\ r.session_used = now
         /\ q.session_id # r.session_id /\ q.session_used < now

\* C20: in every reachable state the number of session rows is at most the
\* number of identifiers of the pool and every row's player_id is one of them.
C20_RowsFitThePool ==
    /\ Cardinality(user_session) <= Cardinality(DOMAIN player_slot)
    /\ \A r \in user_session : r.player_id \in DOMAIN player_slot
\* the pool is full and a concurrent start_session that was given an
\* identifier of the pool before it filled up has been refused
C20_Witness ==
    /\ Cardinality(user_session) = PoolSize
    /\ ret.op = "start_session" /\ ret.result = "None"
    /\ ret.caught = "IntegrityError"

Spec == Init /\ [][Next]_vars
====
